---- MODULE Spec2Model ----
(***************************************************************************)
(* A model of the sqlite-clone reader: the varint codec, the serial-type   *)
(* decoder, the record (cell) decoder, the page reader, the recursive      *)
(* B-tree traversal, the schema catalog and the query executor.            *)
(*                                                                         *)
(* Representation of machine values                                        *)
(*   u8            a number in 0..255                                      *)
(*   u64 / i64     eight bytes, most significant first (two's complement   *)
(*                 for i64), so that every 64-bit operation keeps its      *)
(*                 width without leaving the range of the checker's        *)
(*                 integers                                                *)
(*   &str / String a sequence of Unicode code points                       *)
(*   a panic       a record [ok |-> FALSE, panic |-> <message kind>]       *)
(***************************************************************************)
EXTENDS Integers, Sequences, FiniteSets, TLC

VARIABLES
    pc,       \* position of the program / of the function under check
    arg,      \* the input: [file, query] of run, or the arguments of a function
    ret,      \* what the call returned (or the panic that ended it)
    db,       \* Db { page_size, tables } once built (db.rs)
    stack,    \* the activation records of traverse, innermost last
    rows,     \* the caller's `rows: Vec<Row>` that traverse appends to
    columns,  \* execute: the local column_names
    reads,    \* ghost: number of Page::read calls made so far
    pushed    \* ghost: number of rows appended by the traversal in progress

vars == <<pc, arg, ret, db, stack, rows, columns, reads, pushed>>

-----------------------------------------------------------------------------
(* Bounds of the model *)

\* longest value slice handed to parse_type_code in the decoder check
MaxDataLen == 9
\* largest serial type code enumerated in the decoder check
MaxTypeCode == 31
\* most columns of a record in the cell decoder check
MaxCols == 2
\* most items (column definitions, constraints) of a table body in the schema check
MaxItems == 3

-----------------------------------------------------------------------------
(* Bytes and 64-bit words *)

Byte == 0..255

Min(a, b) == IF a < b THEN a ELSE b

Repeat(x, n) == [k \in 1..n |-> x]

\* &s[from..] of a slice (0-based `from`); the caller guards from <= len
SliceFrom(s, from) == SubSeq(s, from + 1, Len(s))

\* &s[..len]
SliceTo(s, len) == SubSeq(s, 1, len)

Zero64 == Repeat(0, 8)

\* a small number as a 64-bit word
U64(n) == <<0, 0, 0, 0, 0, n \div 65536, (n \div 256) % 256, n % 256>>

\* a stand-in for every usize of 2^24 or more: larger than any page buffer
\* (page_size is a u16), so every bounds check on it fails the same way
TooLarge == 256 * 65536

\* `x as usize` of a u64, exact below 2^24
AsUsize(w) ==
    IF \A k \in 1..5 : w[k] = 0
    THEN w[6] * 65536 + w[7] * 256 + w[8]
    ELSE TooLarge

\* mutant of Shl7Or: the value shifted by a whole byte
Shl8Or(value, data_bits) == [k \in 1..8 |-> IF k < 8 THEN value[k + 1] ELSE data_bits]

\* (value << 7) | data_bits on a u64; bits shifted out at the top are lost
Shl7Or(value, data_bits) ==
    [k \in 1..8 |->
        IF k < 8
        THEN (value[k] % 2) * 128 + (value[k + 1] \div 2)
        ELSE (value[8] % 2) * 128 + data_bits]

\* widening of a big-endian signed integer of 1..8 bytes to i64
SignExtend(bs) ==
    Repeat(IF bs[1] >= 128 THEN 255 ELSE 0, 8 - Len(bs)) \o bs

\* a call that ends in a panic, and a call that never returns
Panic(why) == [ok |-> FALSE, diverges |-> FALSE, panic |-> why]
Diverges == [ok |-> FALSE, diverges |-> TRUE, panic |-> "none"]

-----------------------------------------------------------------------------
(* varint.rs (the copy kept in database.rs): parse_varint *)

RECURSIVE varint_loop(_, _, _)
varint_loop(bytes, bytes_read, value) ==
    IF bytes_read >= Len(bytes) \/ bytes_read >= 9
    THEN [value |-> value, bytes_read |-> bytes_read]
    ELSE LET byte == bytes[bytes_read + 1]
             high_bit_set == byte >= 128
             data_bits == byte % 128
             next == Shl7Or(value, data_bits)
         IN  IF ~high_bit_set
             THEN [value |-> next, bytes_read |-> bytes_read + 1]
             ELSE varint_loop(bytes, bytes_read + 1, next)

parse_varint(bytes) == varint_loop(bytes, 0, Zero64)

-----------------------------------------------------------------------------
(* String::from_utf8_lossy, as used by parse_type_code for Text *)

REPLACEMENT_CHARACTER == 65533

utf8_char_width(b) ==
    CASE b < 128 -> 1
      [] b \in 194..223 -> 2
      [] b \in 224..239 -> 3
      [] b \in 240..244 -> 4
      [] OTHER -> 0

RECURSIVE lossy_from(_, _)
lossy_from(b, i) ==
    IF i > Len(b) THEN <<>>
    ELSE
    LET c == b[i]
        get(j) == IF j <= Len(b) THEN b[j] ELSE 0
        cont(x) == x \in 128..191
        low(x) == x % 64
        bad(n) == <<REPLACEMENT_CHARACTER>> \o lossy_from(b, i + n)
        second3 ==
            \/ c = 224 /\ get(i + 1) \in 160..191
            \/ c \in 225..236 /\ get(i + 1) \in 128..191
            \/ c = 237 /\ get(i + 1) \in 128..159
            \/ c \in 238..239 /\ get(i + 1) \in 128..191
        second4 ==
            \/ c = 240 /\ get(i + 1) \in 144..191
            \/ c \in 241..243 /\ get(i + 1) \in 128..191
            \/ c = 244 /\ get(i + 1) \in 128..143
    IN  CASE utf8_char_width(c) = 1 -> <<c>> \o lossy_from(b, i + 1)
          [] utf8_char_width(c) = 2 ->
                IF ~cont(get(i + 1)) THEN bad(1)
                ELSE <<(c - 192) * 64 + low(get(i + 1))>> \o lossy_from(b, i + 2)
          [] utf8_char_width(c) = 3 ->
                IF ~second3 THEN bad(1)
                ELSE IF ~cont(get(i + 2)) THEN bad(2)
                ELSE <<(c - 224) * 4096 + low(get(i + 1)) * 64 + low(get(i + 2))>>
                         \o lossy_from(b, i + 3)
          [] utf8_char_width(c) = 4 ->
                IF ~second4 THEN bad(1)
                ELSE IF ~cont(get(i + 2)) THEN bad(2)
                ELSE IF ~cont(get(i + 3)) THEN bad(3)
                ELSE <<(c - 240) * 262144 + low(get(i + 1)) * 4096
                          + low(get(i + 2)) * 64 + low(get(i + 3))>>
                         \o lossy_from(b, i + 4)
          [] OTHER -> bad(1)

from_utf8_lossy(bytes) == lossy_from(bytes, 1)

-----------------------------------------------------------------------------
(* value.rs: Value and parse_type_code *)

Null == [kind |-> "Null"]
Integer(i) == [kind |-> "Integer", i |-> i]
Float(bits) == [kind |-> "Float", bits |-> bits]
Text(s) == [kind |-> "Text", s |-> s]
Blob(b) == [kind |-> "Blob", b |-> b]

\* Option<&str>, Option<i64>
None == [some |-> FALSE]
Some(x) == [some |-> TRUE, v |-> x]

as_text(value) == IF value.kind = "Text" THEN Some(value.s) ELSE None
as_integer(value) == IF value.kind = "Integer" THEN Some(value.i) ELSE None

\* bytes consumed by the integer codes 1..6
int_width(n) ==
    CASE n = 1 -> 1 [] n = 2 -> 2 [] n = 3 -> 3 [] n = 4 -> 4 [] n = 5 -> 6 [] n = 6 -> 8

\* mutant of blob_len: the blob length computed from the text base
blob_len_text_base(n) == (n - 13) \div 2

blob_len(n) == (n - 12) \div 2

text_len(n) == (n - 13) \div 2

\* the i64 the code builds for the integer codes: codes 1, 2, 4 and 6 widen a
\* signed value; codes 3 and 5 put zero bytes in front of the stored ones
int_value(n, data) ==
    CASE n = 1 -> SignExtend(<<data[1]>>)
      [] n = 2 -> SignExtend(<<data[1], data[2]>>)
      [] n = 3 -> SignExtend(<<0, data[1], data[2], data[3]>>)
      [] n = 4 -> SignExtend(<<data[1], data[2], data[3], data[4]>>)
      [] n = 5 -> <<0, 0, data[1], data[2], data[3], data[4], data[5], data[6]>>
      [] n = 6 -> SliceTo(data, 8)

Decoded(value, size) == [ok |-> TRUE, value |-> value, size |-> size]

parse_type_code(type_code, data) ==
    LET n == AsUsize(type_code)
        has(k) == Len(data) >= k
        oob == Panic("index out of bounds")
    IN  CASE n = 0 -> Decoded(Null, 0)
          [] n \in 1..6 ->
                IF has(int_width(n))
                THEN Decoded(Integer(int_value(n, data)), int_width(n))
                ELSE oob
          [] n = 7 ->
                IF has(8) THEN Decoded(Float(SliceTo(data, 8)), 8) ELSE oob
          [] n = 8 -> Decoded(Integer(U64(0)), 0)
          [] n = 9 -> Decoded(Integer(U64(1)), 0)
          [] n >= 12 /\ n % 2 = 0 ->
                IF has(blob_len(n))
                THEN Decoded(Blob(SliceTo(data, blob_len(n))), blob_len(n))
                ELSE oob
          [] n >= 13 /\ n % 2 = 1 ->
                IF has(text_len(n))
                THEN Decoded(Text(from_utf8_lossy(SliceTo(data, text_len(n)))),
                             text_len(n))
                ELSE oob
          [] OTHER -> Panic("Unknown type code")

-----------------------------------------------------------------------------
(* The decoder check: parse_type_code applied to bounded inputs *)

\* value bytes: 514 in eight bytes, all ones, a negative first byte, ASCII
\* text, and a byte that no UTF-8 sequence contains
DataPatterns ==
    { <<0, 0, 0, 0, 0, 0, 2, 2, 7>>,
      <<255, 255, 255, 255, 255, 255, 255, 255, 255>>,
      <<128, 1, 2, 3, 4, 5, 6, 7, 8>>,
      <<65, 108, 105, 99, 101, 65, 108, 105, 99>>,
      <<65, 255, 66, 195, 169, 67, 226, 130, 172>> }

Idle ==
    /\ db = None
    /\ stack = <<>>
    /\ rows = <<>>
    /\ columns = <<>>
    /\ reads = 0
    /\ pushed = 0

\* the codes 0..MaxTypeCode, 300 and a code of 2^56; every prefix of the
\* data patterns, and a text of 144 bytes
InitValue ==
    /\ pc = "call"
    /\ arg \in
         { [fn |-> "parse_type_code", type_code |-> t, data |-> d] :
             t \in { U64(n) : n \in 0..MaxTypeCode }
                     \cup { U64(300), <<1, 0, 0, 0, 0, 0, 0, 0>> },
             d \in { SliceTo(p, Min(n, Len(p))) : p \in DataPatterns, n \in 0..MaxDataLen }
                     \cup { Repeat(67, 144) } }
    /\ ret = None
    /\ Idle

CallParseTypeCode ==
    /\ pc = "call"
    /\ arg.fn = "parse_type_code"
    /\ ret' = parse_type_code(arg.type_code, arg.data)
    /\ pc' = "returned"
    /\ UNCHANGED <<arg, db, stack, rows, columns, reads, pushed>>

SpecValue == InitValue /\ [][CallParseTypeCode]_vars

\* C10: for every serial type code of the fixed table, parse_type_code returns
\* the listed kind of Value and consumed byte count: 0 gives (Null, 0); codes
\* 1..6 give an Integer whose low 1, 2, 3, 4, 6, 8 bytes are the stored bytes
\* in big-endian order and consume that many; 8 gives (Integer 0, 0); 9 gives
\* (Integer 1, 0); an even code n >= 12 gives a Blob that is the first
\* (n-12)/2 bytes and consumes them; an odd code n >= 13 gives a Text of the
\* first (n-13)/2 bytes and consumes them.
C10_TypeTable ==
    (pc = "returned" /\ arg.fn = "parse_type_code"
        /\ \A k \in 1..5 : arg.type_code[k] = 0) =>
    LET n == arg.type_code[6] * 65536 + arg.type_code[7] * 256 + arg.type_code[8]
        data == arg.data
        w == CASE n = 5 -> 6 [] n = 6 -> 8 [] OTHER -> n
        first(k) == SubSeq(data, 1, k)
    IN  /\ n = 0 => ret = [ok |-> TRUE, value |-> Null, size |-> 0]
        /\ (n \in 1..6 /\ Len(data) >= w) =>
              /\ ret.ok /\ ret.size = w /\ ret.value.kind = "Integer"
              /\ SubSeq(ret.value.i, 9 - w, 8) = first(w)
        /\ n = 8 => ret = [ok |-> TRUE, value |-> Integer(<<0, 0, 0, 0, 0, 0, 0, 0>>),
                           size |-> 0]
        /\ n = 9 => ret = [ok |-> TRUE, value |-> Integer(<<0, 0, 0, 0, 0, 0, 0, 1>>),
                           size |-> 0]
        /\ (n >= 12 /\ n % 2 = 0 /\ Len(data) >= (n - 12) \div 2) =>
              ret = [ok |-> TRUE, value |-> Blob(first((n - 12) \div 2)),
                     size |-> (n - 12) \div 2]
        /\ (n >= 13 /\ n % 2 = 1 /\ Len(data) >= (n - 13) \div 2) =>
              /\ ret.ok /\ ret.size = (n - 13) \div 2 /\ ret.value.kind = "Text"
              /\ (\A k \in 1..((n - 13) \div 2) : data[k] < 128)
                    => ret.value.s = first((n - 13) \div 2)

\* the blob of the decoder's own test: code 300 on 144 bytes
C10_Witness ==
    /\ pc = "returned" /\ arg.fn = "parse_type_code"
    /\ arg.type_code = U64(300) /\ Len(arg.data) = 144
    /\ ret.ok /\ ret.value.kind = "Blob" /\ Len(ret.value.b) = 144 /\ ret.size = 144

-----------------------------------------------------------------------------
(* cell.rs: parse_interior_cell and parse_leaf_cell *)

\* u32::from_be_bytes of four bytes, kept as the four bytes
Cell(child_page_number, rowid) ==
    [child_page_number |-> child_page_number, rowid |-> rowid]

parse_interior_cell(index, page) ==
    IF index + 3 >= Len(page)
    THEN Panic("index out of bounds")
    ELSE [ok |-> TRUE,
          cell |-> Cell(<<page[index + 1], page[index + 2], page[index + 3],
                          page[index + 4]>>,
                        parse_varint(SliceFrom(page, index + 4)).value)]

Row(rowid, values) == [rowid |-> rowid, values |-> values]

\* the `while offset < header_size` loop that collects the serial type codes.
\* parse_varint consumes nothing from an empty slice, and the loop then never
\* advances: the call does not return.
RECURSIVE type_code_loop(_, _, _, _, _)
type_code_loop(page, payload_start, header_size, offset, type_codes) ==
    IF ~(offset < header_size)
    THEN [ok |-> TRUE, type_codes |-> type_codes, offset |-> offset]
    ELSE IF payload_start + offset > Len(page)
    THEN Panic("slice start out of range")
    ELSE LET v == parse_varint(SliceFrom(page, payload_start + offset))
         IN  IF v.bytes_read = 0
             THEN Diverges
             ELSE type_code_loop(page, payload_start, header_size,
                                 offset + v.bytes_read,
                                 Append(type_codes, v.value))

\* mutant of first_value_offset: the values read from right after the
\* header_size varint instead of after the whole header
first_value_offset_after_size(payload_start, header_size, header_bytes_read) ==
    payload_start + header_bytes_read

\* let mut values_offset = payload_start + header_size as usize
first_value_offset(payload_start, header_size, header_bytes_read) ==
    payload_start + header_size

\* mutant of next_value_offset: every value read at the first value's place
next_value_offset_stuck(values_offset, size) == values_offset

\* values_offset += size
next_value_offset(values_offset, size) == values_offset + size

\* the `for type_code in type_codes` loop that decodes the values
RECURSIVE value_loop(_, _, _, _, _)
value_loop(page, type_codes, k, values_offset, values) ==
    IF k > Len(type_codes)
    THEN [ok |-> TRUE, values |-> values]
    ELSE IF values_offset > Len(page)
    THEN Panic("slice start out of range")
    ELSE LET d == parse_type_code(type_codes[k], SliceFrom(page, values_offset))
         IN  IF ~d.ok THEN d
             ELSE value_loop(page, type_codes, k + 1,
                             next_value_offset(values_offset, d.size),
                             Append(values, d.value))

parse_leaf_cell(pointer, page) ==
    IF pointer > Len(page)
    THEN Panic("slice start out of range")
    ELSE
    LET payload == parse_varint(SliceFrom(page, pointer))
        payload_bytes_read == payload.bytes_read
        rowid == parse_varint(SliceFrom(page, pointer + payload_bytes_read))
        rowid_bytes_read == rowid.bytes_read
        payload_start == pointer + payload_bytes_read + rowid_bytes_read
        header == parse_varint(SliceFrom(page, payload_start))
        header_size == AsUsize(header.value)
        header_bytes_read == header.bytes_read
        codes == type_code_loop(page, payload_start, header_size,
                                header_bytes_read, <<>>)
    IN  IF ~codes.ok THEN codes
        ELSE LET vals == value_loop(page, codes.type_codes, 1,
                             first_value_offset(payload_start, header_size,
                                                header_bytes_read),
                             <<>>)
             IN  IF ~vals.ok THEN vals
                 ELSE [ok |-> TRUE, row |-> Row(rowid.value, vals.values)]

-----------------------------------------------------------------------------
(* Records as the tests of cell.rs lay them out: a column is a serial type  *)
(* code, the bytes stored for it, and the Value the format assigns to them  *)

Column(code, bytes, value) == [code |-> code, bytes |-> bytes, value |-> value]

Columns ==
    { Column(0, <<>>, Null),
      Column(1, <<2>>, Integer(<<0, 0, 0, 0, 0, 0, 0, 2>>)),
      Column(1, <<254>>, Integer(<<255, 255, 255, 255, 255, 255, 255, 254>>)),
      Column(2, <<2, 2>>, Integer(<<0, 0, 0, 0, 0, 0, 2, 2>>)),
      Column(3, <<0, 2, 2>>, Integer(<<0, 0, 0, 0, 0, 0, 2, 2>>)),
      Column(7, <<64, 8, 245, 194, 143, 92, 40, 246>>,
             Float(<<64, 8, 245, 194, 143, 92, 40, 246>>)),
      Column(8, <<>>, Integer(<<0, 0, 0, 0, 0, 0, 0, 0>>)),
      Column(9, <<>>, Integer(<<0, 0, 0, 0, 0, 0, 0, 1>>)),
      Column(17, <<65, 108>>, Text(<<65, 108>>)),
      Column(18, <<1, 2, 3>>, Blob(<<1, 2, 3>>)),
      Column(128, Repeat(120, 58), Blob(Repeat(120, 58))) }

RECURSIVE Flatten(_)
Flatten(seqs) == IF seqs = <<>> THEN <<>> ELSE Head(seqs) \o Flatten(Tail(seqs))

\* the one- or two-byte varint of a number below 2^14
EncVarint(n) == IF n < 128 THEN <<n>> ELSE <<128 + (n \div 128), n % 128>>

\* [header_size][type codes][values]
EncodeRecord(cols) ==
    LET codes == Flatten([k \in 1..Len(cols) |-> EncVarint(cols[k].code)])
    IN  <<Len(codes) + 1>> \o codes \o Flatten([k \in 1..Len(cols) |-> cols[k].bytes])

\* [payload_size][rowid][payload]
EncodeLeafCell(rowid, cols) ==
    EncVarint(Len(EncodeRecord(cols))) \o EncVarint(rowid) \o EncodeRecord(cols)

ExpectedRow(rowid, cols) ==
    Row(<<0, 0, 0, 0, 0, 0, rowid \div 256, rowid % 256>>,
        [k \in 1..Len(cols) |-> cols[k].value])

-----------------------------------------------------------------------------
(* The cell decoder check: parse_leaf_cell applied to bounded buffers *)

\* whole cells at pointer 0 and at pointer 3, with and without bytes after
\* them, and every proper prefix of the shorter cells (a buffer that ends
\* inside the cell)
InitCell ==
    /\ pc = "call"
    /\ arg \in
         { [fn |-> "parse_leaf_cell", pointer |-> lead,
            page |-> Repeat(0, lead) \o EncodeLeafCell(rowid, cols) \o Repeat(255, trail),
            whole |-> TRUE, rowid |-> rowid, cols |-> cols] :
              lead \in {0, 3}, trail \in {0, 2}, rowid \in {1, 300},
              cols \in UNION { [1..n -> Columns] : n \in 0..MaxCols } }
         \cup
         UNION { { [fn |-> "parse_leaf_cell", pointer |-> 0,
                    page |-> SliceTo(EncodeLeafCell(1, cols), n),
                    whole |-> FALSE, rowid |-> 1, cols |-> cols] :
                      n \in 0..(Len(EncodeLeafCell(1, cols)) - 1) } :
                 cols \in UNION { [1..n -> Columns] : n \in 0..(MaxCols - 1) } }
    /\ ret = None
    /\ Idle

CallParseLeafCell ==
    /\ pc = "call"
    /\ arg.fn = "parse_leaf_cell"
    /\ ret' = parse_leaf_cell(arg.pointer, arg.page)
    /\ pc' = "returned"
    /\ UNCHANGED <<arg, db, stack, rows, columns, reads, pushed>>

SpecCell == InitCell /\ [][CallParseLeafCell]_vars

\* the serial type codes of a record header: the varints that start at byte
\* positions from..to-1 of the page
RECURSIVE HeaderCodes(_, _, _)
HeaderCodes(page, from, to) ==
    IF from >= to \/ from >= Len(page) THEN <<>>
    ELSE <<parse_varint(SliceFrom(page, from)).value>>
            \o HeaderCodes(page, from + parse_varint(SliceFrom(page, from)).bytes_read, to)

\* width of a value by the serial type table
TableWidth(code) ==
    LET n == AsUsize(code)
    IN  CASE n \in 1..4 -> n [] n = 5 -> 6 [] n \in 6..7 -> 8
          [] n >= 12 -> (n - 12) \div 2
          [] OTHER -> 0

RECURSIVE SumWidths(_, _)
SumWidths(codes, k) ==
    IF k = 0 THEN 0 ELSE TableWidth(codes[k]) + SumWidths(codes, k - 1)

-----------------------------------------------------------------------------
(* Text: a &str is the sequence of its code points.  Ascii gives the code   *)
(* point of a one-character string, S the text of a sequence of them        *)

Ascii ==
    " " :> 32 @@ "'" :> 39 @@ "(" :> 40 @@ ")" :> 41 @@ "*" :> 42 @@
    "," :> 44 @@ "." :> 46 @@ "0" :> 48 @@ "1" :> 49 @@ "2" :> 50 @@
    "3" :> 51 @@ "4" :> 52 @@ "5" :> 53 @@ "6" :> 54 @@ "7" :> 55 @@
    "8" :> 56 @@ "9" :> 57 @@ ";" :> 59 @@ "<" :> 60 @@ "=" :> 61 @@
    ">" :> 62 @@ "A" :> 65 @@ "B" :> 66 @@ "C" :> 67 @@ "D" :> 68 @@
    "E" :> 69 @@ "F" :> 70 @@ "G" :> 71 @@ "H" :> 72 @@ "I" :> 73 @@
    "J" :> 74 @@ "K" :> 75 @@ "L" :> 76 @@ "M" :> 77 @@ "N" :> 78 @@
    "O" :> 79 @@ "P" :> 80 @@ "Q" :> 81 @@ "R" :> 82 @@ "S" :> 83 @@
    "T" :> 84 @@ "U" :> 85 @@ "V" :> 86 @@ "W" :> 87 @@ "X" :> 88 @@
    "Y" :> 89 @@ "Z" :> 90 @@ "[" :> 91 @@ "]" :> 93 @@ "_" :> 95 @@
    "a" :> 97 @@ "b" :> 98 @@ "c" :> 99 @@ "d" :> 100 @@ "e" :> 101 @@
    "f" :> 102 @@ "g" :> 103 @@ "h" :> 104 @@ "i" :> 105 @@ "j" :> 106 @@
    "k" :> 107 @@ "l" :> 108 @@ "m" :> 109 @@ "n" :> 110 @@ "o" :> 111 @@
    "p" :> 112 @@ "q" :> 113 @@ "r" :> 114 @@ "s" :> 115 @@ "t" :> 116 @@
    "u" :> 117 @@ "v" :> 118 @@ "w" :> 119 @@ "x" :> 120 @@ "y" :> 121 @@
    "z" :> 122 @@ "\n" :> 10 @@ "\t" :> 9

S(cs) == [k \in 1..Len(cs) |-> Ascii[cs[k]]]

\* char::is_whitespace: the code points with the White_Space property
is_whitespace(c) ==
    \/ c \in 9..13 \/ c = 32 \/ c = 133 \/ c = 160 \/ c = 5760
    \/ c \in 8192..8202 \/ c = 8232 \/ c = 8233 \/ c = 8239 \/ c = 8287
    \/ c = 12288

\* str::find(char) and str::rfind(char): the 0-based index, or None
find(s, c) ==
    IF \E k \in 1..Len(s) : s[k] = c
    THEN Some((CHOOSE k \in 1..Len(s) : s[k] = c /\ \A j \in 1..(k - 1) : s[j] # c) - 1)
    ELSE None

rfind(s, c) ==
    IF \E k \in 1..Len(s) : s[k] = c
    THEN Some((CHOOSE k \in 1..Len(s) :
                  s[k] = c /\ \A j \in (k + 1)..Len(s) : s[j] # c) - 1)
    ELSE None

\* str::split(char): the pieces between the separators, empty ones included
RECURSIVE split(_, _)
split(s, c) ==
    IF find(s, c) = None THEN <<s>>
    ELSE <<SubSeq(s, 1, find(s, c).v)>> \o split(SliceFrom(s, find(s, c).v + 1), c)

RECURSIVE trim_start(_)
trim_start(s) ==
    IF s # <<>> /\ is_whitespace(Head(s)) THEN trim_start(Tail(s)) ELSE s

RECURSIVE trim_end(_)
trim_end(s) ==
    IF s # <<>> /\ is_whitespace(s[Len(s)])
    THEN trim_end(SubSeq(s, 1, Len(s) - 1)) ELSE s

trim(s) == trim_end(trim_start(s))

starts_with(s, prefix) ==
    Len(s) >= Len(prefix) /\ SubSeq(s, 1, Len(prefix)) = prefix

\* the length of the longest prefix of s without whitespace
RECURSIVE word_len(_)
word_len(s) ==
    IF s = <<>> \/ is_whitespace(Head(s)) THEN 0 ELSE 1 + word_len(Tail(s))

\* str::split_whitespace: the maximal runs of non-whitespace, in order
RECURSIVE split_whitespace(_)
split_whitespace(s) ==
    IF trim_start(s) = <<>> THEN <<>>
    ELSE <<SubSeq(trim_start(s), 1, word_len(trim_start(s)))>>
            \o split_whitespace(SliceFrom(trim_start(s), word_len(trim_start(s))))

-----------------------------------------------------------------------------
(* schema.rs: parse_column_names *)

FOREIGN == S(<<"F", "O", "R", "E", "I", "G", "N">>)
PRIMARY == S(<<"P", "R", "I", "M", "A", "R", "Y">>)
UNIQUE == S(<<"U", "N", "I", "Q", "U", "E">>)
CHECK == S(<<"C", "H", "E", "C", "K">>)

\* the filter that skips constraints
is_constraint(s) ==
    \/ starts_with(s, FOREIGN)
    \/ starts_with(s, PRIMARY)
    \/ starts_with(s, UNIQUE)
    \/ starts_with(s, CHECK)

parse_column_names(table_definition) ==
    LET open == find(table_definition, Ascii["("])
        close == rfind(table_definition, Ascii[")"])
    IN  IF ~open.some \/ ~close.some
        THEN Panic("unwrap on None")
        ELSE
        LET start == open.v + 1
            end == close.v
        IN  IF start > end
            THEN Panic("slice index starts after its end")
            ELSE
            LET inner == SubSeq(table_definition, start + 1, end)
                segments == split(inner, Ascii[","])
                trimmed == [k \in 1..Len(segments) |-> trim(segments[k])]
                nonempty(s) == s # <<>>
                column(s) == ~is_constraint(s)
                kept == SelectSeq(SelectSeq(trimmed, nonempty), column)
            IN  [ok |-> TRUE,
                 names |-> [k \in 1..Len(kept) |-> Head(split_whitespace(kept[k]))]]

-----------------------------------------------------------------------------
(* The schema check: parse_column_names applied to table definition texts   *)
(* made of column definitions and constraint clauses                        *)

\* an item of a table body: its text, and the column it declares, if any
ColumnDef(text, name) == [text |-> text, column |-> TRUE, name |-> name]
Constraint(text) == [text |-> text, column |-> FALSE]

BodyItems ==
    { ColumnDef(S(<<"a", " ", "I", "N", "T", "E", "G", "E", "R">>), S(<<"a">>)),
      ColumnDef(S(<<"b", " ", "T", "E", "X", "T", " ", "N", "O", "T", " ", "N",
        "U", "L", "L">>), S(<<"b">>)),
      ColumnDef(S(<<"[", "c", "]", " ", "N", "V", "A", "R", "C", "H", "A", "R",
        "(", "1", "6", "0", ")">>), S(<<"[", "c", "]">>)),
      Constraint(S(<<"P", "R", "I", "M", "A", "R", "Y", " ", "K", "E", "Y", " ",
        "(", "a", ")">>)),
      Constraint(S(<<"P", "R", "I", "M", "A", "R", "Y", " ", "K", "E", "Y", " ",
        "(", "a", ",", " ", "b", ")">>)),
      Constraint(S(<<"F", "O", "R", "E", "I", "G", "N", " ", "K", "E", "Y", " ",
        "(", "a", ")", " ", "R", "E", "F", "E", "R", "E", "N", "C", "E", "S",
        " ", "u", "(", "a", ")">>)),
      Constraint(S(<<"U", "N", "I", "Q", "U", "E", " ", "(", "a", ",", " ", "b",
        ")">>)),
      Constraint(S(<<"C", "H", "E", "C", "K", " ", "(", "a", " ", ">", " ", "0",
        ")">>)) }

RECURSIVE Join(_, _)
Join(texts, sep) ==
    IF Len(texts) = 0 THEN <<>>
    ELSE IF Len(texts) = 1 THEN texts[1]
    ELSE texts[1] \o sep \o Join(Tail(texts), sep)

DefinitionText(items, sep) ==
    S(<<"C", "R", "E", "A", "T", "E", " ", "T", "A", "B", "L", "E", " ", "t", "(">>)
      \o Join([k \in 1..Len(items) |-> items[k].text], sep) \o S(<<")">>)

\* the names of the true columns of a body, in declaration order
RECURSIVE DeclaredColumns(_)
DeclaredColumns(items) ==
    IF items = <<>> THEN <<>>
    ELSE (IF Head(items).column THEN <<Head(items).name>> ELSE <<>>)
            \o DeclaredColumns(Tail(items))

InitSchema ==
    /\ pc = "call"
    /\ arg \in { [fn |-> "parse_column_names", items |-> items,
                  table_definition |-> DefinitionText(items, sep)] :
                    items \in UNION { [1..n -> BodyItems] : n \in 1..MaxItems },
                    sep \in { S(<<",", " ">>), S(<<",", "\n", " ", " ">>) } }
    /\ ret = None
    /\ Idle

CallParseColumnNames ==
    /\ pc = "call"
    /\ arg.fn = "parse_column_names"
    /\ ret' = parse_column_names(arg.table_definition)
    /\ pc' = "returned"
    /\ UNCHANGED <<arg, db, stack, rows, columns, reads, pushed>>

SpecSchema == InitSchema /\ [][CallParseColumnNames]_vars

\* C8: on a table definition text whose body lists column definitions and
\* FOREIGN KEY / PRIMARY KEY / UNIQUE / CHECK constraint clauses (those with
\* commas inside their parentheses included), parse_column_names returns
\* exactly the names of the true columns, in declaration order.
C8_OnlyTrueColumns ==
    (pc = "returned" /\ arg.fn = "parse_column_names") =>
        ret = [ok |-> TRUE, names |-> DeclaredColumns(arg.items)]

-----------------------------------------------------------------------------
(* page.rs: Page *)

BE16(hi, lo) == hi * 256 + lo

\* a stand-in for every page number of 2^16 or more: past the end of every
\* file of the model
FarPage == 256 * 256

\* a u32 (four bytes, big-endian) as a page number
page_number(b) == IF b[1] = 0 /\ b[2] = 0 THEN BE16(b[3], b[4]) ELSE FarPage

\* `x as u32` of an i64
AsU32(w) == SubSeq(w, 5, 8)

Page(data, page_type, num_cells, offset) ==
    [data |-> data, page_type |-> page_type, num_cells |-> num_cells,
     offset |-> offset]

\* mutant of header_offset: the file header skipped on no page
header_offset_zero(page_num) == 0

\* the 100 bytes of file header come before the b-tree header of page 1
header_offset(page_num) == IF page_num = 1 THEN 100 ELSE 0

\* Page::read.  page_num - 1 overflows for page 0 (a panic in a debug build;
\* a release build wraps to a page far past the end of the file and panics on
\* the short read); read_exact fails unless the whole page lies in the file.
Page_read(file, page_num, page_size) ==
    IF page_num = 0
    THEN Panic("attempt to subtract with overflow")
    ELSE IF page_size > 0 /\ page_num > Len(file) \div page_size
    THEN Panic("failed to fill whole buffer")
    ELSE LET page == SubSeq(file, (page_num - 1) * page_size + 1, page_num * page_size)
             offset == header_offset(page_num)
         IN  IF offset + 4 >= Len(page)
             THEN Panic("index out of bounds")
             ELSE [ok |-> TRUE,
                   page |-> Page(page, page[offset + 1],
                                 BE16(page[offset + 4], page[offset + 5]), offset)]

is_leaf(page) == page.page_type = 13 \/ page.page_type = 10

\* Page::cell_pointer.  i * 2 is a u16 product: from i = 32768 on it
\* overflows, a panic in a debug build (a release build wraps).  traverse
\* never gets that far: on a page of at most 65535 bytes the index is out
\* of bounds before.
cell_pointer(page, i) ==
    LET btree_header_size == IF is_leaf(page) THEN 8 ELSE 12
        pointer_index == page.offset + btree_header_size + i * 2
    IN  IF i * 2 > 65535
        THEN Panic("attempt to multiply with overflow")
        ELSE IF pointer_index + 1 >= Len(page.data)
        THEN Panic("index out of bounds")
        ELSE [ok |-> TRUE,
              pointer |-> BE16(page.data[pointer_index + 1],
                               page.data[pointer_index + 2])]

\* Page::cell_pointer as a release build computes it: i * 2 wraps at 2^16
cell_pointer_wrapping(page, i) == cell_pointer(page, (i * 2 % 65536) \div 2)

\* Page::rightmost_child: the four bytes at header offset + 8
rightmost_child(page) ==
    IF page.offset + 11 >= Len(page.data)
    THEN Panic("index out of bounds")
    ELSE [ok |-> TRUE,
          child |-> SubSeq(page.data, page.offset + 9, page.offset + 12)]

-----------------------------------------------------------------------------
(* header.rs: parse_header *)

parse_header(file) ==
    IF Len(file) < 100
    THEN Panic("failed to fill whole buffer")
    ELSE [ok |-> TRUE, page_size |-> BE16(file[17], file[18])]

-----------------------------------------------------------------------------
(* schema.rs: Table and the loop of parse_tables over the catalog rows *)

Table(name, rootpage, column_names) ==
    [name |-> name, rootpage |-> rootpage, column_names |-> column_names]

TABLE == S(<<"t", "a", "b", "l", "e">>)

is_table_row(kind) == kind = TABLE

RECURSIVE tables_loop(_, _, _)
tables_loop(sqlite_master_rows, k, tables) ==
    IF k > Len(sqlite_master_rows)
    THEN [ok |-> TRUE, tables |-> tables]
    ELSE
    LET row == sqlite_master_rows[k]
        unwrap_none == Panic("unwrap on None")
    IN  IF Len(row.values) < 5
        THEN Panic("index out of bounds")
        ELSE IF ~as_text(row.values[5]).some
        THEN tables_loop(sqlite_master_rows, k + 1, tables)
        ELSE
        LET column_names == parse_column_names(as_text(row.values[5]).v)
        IN  IF ~column_names.ok THEN column_names
            ELSE IF ~as_text(row.values[1]).some THEN unwrap_none
            ELSE IF ~is_table_row(as_text(row.values[1]).v)
            THEN tables_loop(sqlite_master_rows, k + 1, tables)
            ELSE IF ~as_text(row.values[2]).some THEN unwrap_none
            ELSE IF ~as_integer(row.values[4]).some THEN unwrap_none
            ELSE tables_loop(sqlite_master_rows, k + 1,
                     Append(tables, Table(as_text(row.values[2]).v,
                                          as_integer(row.values[4]).v,
                                          column_names.names)))

-----------------------------------------------------------------------------
(* query.rs: the tokens of a query and what execute decides from them *)

SELECT == S(<<"S", "E", "L", "E", "C", "T">>)
FROM == S(<<"F", "R", "O", "M">>)
STAR == S(<<"*">>)

\* mutant of position_or_zero: the keyword never looked for
position_always_zero(parts, word) == 0

\* parts.iter().position(|s| *s == word), or the initial 0
position_or_zero(parts, word) ==
    IF \E k \in 1..Len(parts) : parts[k] = word
    THEN (CHOOSE k \in 1..Len(parts) :
             parts[k] = word /\ \A j \in 1..(k - 1) : parts[j] # word) - 1
    ELSE 0

\* db.tables.iter().find(|t| t.name == table_name)
find_table(tables, table_name) ==
    IF \E k \in 1..Len(tables) : tables[k].name = table_name
    THEN Some(tables[CHOOSE k \in 1..Len(tables) :
                 tables[k].name = table_name
                   /\ \A j \in 1..(k - 1) : tables[j].name # table_name])
    ELSE None

projection_supported(condition) == condition = STAR

\* the part of execute before the traversal: a panic on a token index out of
\* range, else the table to traverse, if any
execute_plan(tables, query) ==
    LET parts == split_whitespace(query)
        select_start_index == position_or_zero(parts, SELECT)
        from_index == position_or_zero(parts, FROM)
    IN  IF from_index + 1 >= Len(parts) \/ select_start_index + 1 >= Len(parts)
        THEN Panic("index out of bounds")
        ELSE LET table_name == parts[from_index + 2]
                 condition == parts[select_start_index + 2]
             IN  [ok |-> TRUE,
                  table |-> IF projection_supported(condition)
                            THEN find_table(tables, table_name)
                            ELSE None]

-----------------------------------------------------------------------------
(* Database files of the model: descriptions of pages, and their bytes in
   the layout that Page::read, cell_pointer and the cell decoders take apart *)

MaxPage == 4
MaxDepth == 5
MaxTokens == 4

PageSize == 2 * 128

BE16Bytes(n) == <<n \div 256, n % 256>>
BE32Bytes(n) == <<0, 0, n \div 256, n % 256>>

RowOf(rowid, cols) == [rowid |-> rowid, cols |-> cols]
LeafPage(type, rs) == [kind |-> "leaf", type |-> type, rows |-> rs]
ChildOf(child, key) == [child |-> child, key |-> key]
InteriorPage(type, children, right) ==
    [kind |-> "interior", type |-> type, children |-> children, right |-> right]

TextCol(s) == Column(13 + 2 * Len(s), s, Text(s))
IntCol(n) == Column(1, <<n>>, Integer(U64(n)))

\* "SQLite format 3\0", the page size at bytes 16-17, zeros up to byte 100
FileHeader(size) ==
    S(<<"S", "Q", "L", "i", "t", "e", " ", "f", "o", "r", "m", "a", "t", " ", "3">>)
      \o <<0>> \o BE16Bytes(size) \o Repeat(0, 82)

RECURSIVE SumLen(_, _)
SumLen(cells, k) == IF k = 0 THEN 0 ELSE Len(cells[k]) + SumLen(cells, k - 1)

Reverse(s) == [k \in 1..Len(s) |-> s[Len(s) + 1 - k]]

\* page number n: [file header][b-tree header][cell pointers][gap][cells],
\* the cells packed from the end of the page, the first cell last
EncodePage(n, d, size) ==
    LET cells == IF d.kind = "leaf"
                 THEN [k \in 1..Len(d.rows) |->
                          EncodeLeafCell(d.rows[k].rowid, d.rows[k].cols)]
                 ELSE [k \in 1..Len(d.children) |->
                          BE32Bytes(d.children[k].child) \o EncVarint(d.children[k].key)]
        total == SumLen(cells, Len(cells))
        lead == IF n = 1 THEN FileHeader(size) ELSE <<>>
        header == <<d.type, 0, 0>> \o BE16Bytes(Len(cells)) \o BE16Bytes(size - total)
                    \o <<0>> \o (IF d.kind = "leaf" THEN <<>> ELSE BE32Bytes(d.right))
        ptrs == Flatten([k \in 1..Len(cells) |-> BE16Bytes(size - SumLen(cells, k))])
        gap == size - Len(lead) - Len(header) - Len(ptrs) - total
    IN  lead \o header \o ptrs \o Repeat(0, gap) \o Flatten(Reverse(cells))

EncodeFile(pages, size) ==
    Flatten([n \in 1..Len(pages) |-> EncodePage(n, pages[n], size)])

\* a file of the model: its bytes, and (ghost) the pages it was built from
FileOf(pages) == [bytes |-> EncodeFile(pages, PageSize), pages |-> pages]

\* catalog rows: (type, name, tbl_name, rootpage, sql), and (ghost) the
\* columns that the sql declares
CatalogRow(rowid, kind, name, root, sql, declares) ==
    [rowid |-> rowid,
     cols |-> <<TextCol(S(kind)), TextCol(S(name)), TextCol(S(name)), IntCol(root), sql>>,
     declares |-> declares]

TableT ==
    CatalogRow(1, <<"t", "a", "b", "l", "e">>, <<"t">>, 2,
        TextCol(S(<<"C", "R", "E", "A", "T", "E", " ", "T", "A", "B", "L", "E", " ",
                    "t", "(", "a", ",", "b", ")">>)),
        <<S(<<"a">>), S(<<"b">>)>>)

TableU ==
    CatalogRow(2, <<"t", "a", "b", "l", "e">>, <<"u">>, 3,
        TextCol(S(<<"C", "R", "E", "A", "T", "E", " ", "T", "A", "B", "L", "E", " ",
                    "u", " ", "(", "x", " ", "T", "E", "X", "T", ")">>)),
        <<S(<<"x">>)>>)

IndexI ==
    CatalogRow(3, <<"i", "n", "d", "e", "x">>, <<"i">>, 4, Column(0, <<>>, Null), <<>>)

\* CREATE VIEW v AS SELECT 1
ViewV ==
    CatalogRow(4, <<"v", "i", "e", "w">>, <<"v">>, 0,
        TextCol(S(<<"C", "R", "E", "A", "T", "E", " ", "V", "I", "E", "W", " ", "v",
                    " ", "A", "S", " ", "S", "E", "L", "E", "C", "T", " ", "1">>)),
        <<>>)

\* CREATE VIEW p(c) AS SELECT 1
ViewP ==
    CatalogRow(5, <<"v", "i", "e", "w">>, <<"p">>, 0,
        TextCol(S(<<"C", "R", "E", "A", "T", "E", " ", "V", "I", "E", "W", " ", "p",
                    "(", "c", ")", " ", "A", "S", " ", "S", "E", "L", "E", "C", "T",
                    " ", "1">>)),
        <<>>)

Catalog == LeafPage(13, <<TableT, TableU>>)

\* the rows of a leaf are stored out of rowid order
LeafA ==
    LeafPage(13, <<RowOf(5, <<IntCol(2), TextCol(S(<<"A", "l">>))>>),
                   RowOf(2, <<Column(0, <<>>, Null), Column(2, <<2, 2>>, Integer(U64(514)))>>)>>)

LeafB == LeafPage(13, <<RowOf(9, <<Column(9, <<>>, Integer(U64(1)))>>)>>)

\* the second cell has the reserved type code 10
LeafBad ==
    LeafPage(13, <<RowOf(7, <<IntCol(3)>>), RowOf(8, <<Column(10, <<>>, Null)>>)>>)

DataPages(n) == [k \in 1..(n - 2) |-> IF k = 1 THEN LeafA ELSE LeafB]

PlainFile == FileOf(<<Catalog, InteriorPage(5, <<ChildOf(3, 5)>>, 4), LeafA, LeafB>>)

\* page 2 an interior page with one cell, its child and rightmost pointers
\* from 0 to one past the last page; three levels, page 2 over page 3
\* (interior) and page 5, the pointers of page 3 ranging over every page of
\* the tree, its ancestors included; and single files: two cells on the
\* interior page, a reserved type code, an interior page with no cell,
\* catalogs with index and view rows, a catalog on an interior page, no bytes
Files ==
    { FileOf(<<Catalog, InteriorPage(5, <<ChildOf(c, 5)>>, r)>> \o DataPages(MaxPage)) :
        c \in 0..(MaxPage + 1), r \in 0..(MaxPage + 1) }
    \union
    { FileOf(<<Catalog, InteriorPage(5, <<ChildOf(3, 5)>>, 5),
               InteriorPage(5, <<ChildOf(c, 2)>>, r), LeafA, LeafB>>) :
        c \in 2..5, r \in 2..5 }
    \union
    { FileOf(<<Catalog, InteriorPage(5, <<ChildOf(4, 9), ChildOf(3, 5)>>, 4), LeafA, LeafB>>),
      FileOf(<<Catalog, InteriorPage(5, <<ChildOf(3, 5)>>, 4), LeafA, LeafBad>>),
      FileOf(<<Catalog, InteriorPage(5, <<>>, 3), LeafB>>),
      FileOf(<<LeafPage(13, <<TableT, IndexI, TableU>>),
               InteriorPage(5, <<ChildOf(3, 5)>>, 4), LeafA, LeafB>>),
      FileOf(<<LeafPage(13, <<TableT, ViewV, TableU>>),
               InteriorPage(5, <<ChildOf(3, 5)>>, 4), LeafA, LeafB>>),
      FileOf(<<LeafPage(13, <<ViewP, TableT>>), LeafB>>),
      FileOf(<<InteriorPage(5, <<ChildOf(2, 1)>>, 3),
               LeafPage(13, <<TableT>>), LeafPage(13, <<TableU>>)>>),
      [bytes |-> <<>>, pages |-> <<>>] }

Space == S(<<" ">>)

\* the queries run on every file
CoreQueries ==
    { Join(<<SELECT, STAR, FROM, S(<<"t">>)>>, Space),
      Join(<<SELECT, STAR, FROM, S(<<"u">>)>>, Space),
      Join(<<SELECT, STAR, FROM, S(<<"w">>)>>, Space),
      Join(<<SELECT, S(<<"a">>), FROM, S(<<"t">>)>>, Space),
      Join(<<SELECT, S(<<"x">>), FROM>>, Space),
      S(<<" ", "S", "E", "L", "E", "C", "T", "\t", "*", "\n", "F", "R", "O", "M",
          " ", " ", "t", " ">>),
      S(<<"s", "e", "l", "e", "c", "t", " ", "*", " ", "f", "r", "o", "m", " ", "t">>) }

\* every sequence of up to MaxTokens tokens, run on one file
TokenQueries ==
    { Join(ts, Space) :
        ts \in UNION { [1..n -> {SELECT, FROM, STAR, S(<<"t">>), S(<<"w">>)}] :
                         n \in 0..MaxTokens } }

-----------------------------------------------------------------------------
(* lib.rs run: parse_header, parse_tables, execute; btree.rs traverse as one
   activation record per call, one step per page read, cell and return *)

Frame(page_num) == [page_num |-> page_num, phase |-> "enter", i |-> 0, page |-> None]

\* mutant of next_cell: every other cell of a page passed over
next_cell_skip(i) == i + 2

\* for i in 0..page.num_cells
next_cell(i) == i + 1

Top == stack[Len(stack)]
SetTop(f) == [stack EXCEPT ![Len(stack)] = f]
Pop == SubSeq(stack, 1, Len(stack) - 1)

\* mutant of unwind: the rows decoded before the failure survive it
unwind_keep(collected) == collected

\* a panic is caught nowhere: unwinding drops the caller's rows
unwind(collected) == <<>>

\* a panic ends the program; a decoder that never returns hangs it
Abort(p, who) ==
    /\ pc' = IF p.diverges THEN "hung" ELSE "panicked"
    /\ ret' = [ok |-> FALSE, diverges |-> p.diverges, panic |-> p.panic,
               in |-> who, during |-> pc]
    /\ stack' = IF p.diverges THEN stack ELSE <<>>
    /\ rows' = IF p.diverges THEN rows ELSE unwind(rows)
    /\ UNCHANGED <<arg, db, columns>>

StackOverflow == Panic("stack overflow")

\* traverse(file, page_num, page_size, rows) called from inside traverse
Recurse(caller, page_num) ==
    IF Len(stack) >= MaxDepth
    THEN Abort(StackOverflow, "traverse")
    ELSE /\ stack' = Append(SetTop(caller), Frame(page_num))
         /\ UNCHANGED <<pc, arg, ret, db, rows, columns>>

InitRun(files, queries) ==
    /\ pc = "run"
    /\ arg \in { [fn |-> "run", file |-> f.bytes, pages |-> f.pages, query |-> q] :
                   f \in files, q \in queries }
    /\ ret = None
    /\ Idle

Init == InitRun(Files, CoreQueries) \/ InitRun({PlainFile}, TokenQueries)

\* run up to the call of traverse on page 1 in parse_tables
Run ==
    /\ pc = "run"
    /\ arg.fn = "run"
    /\ LET header == parse_header(arg.file)
       IN  IF ~header.ok
           THEN Abort(header, "parse_header")
           ELSE /\ pc' = "parse_tables"
                /\ db' = [page_size |-> header.page_size, tables |-> <<>>]
                /\ stack' = <<Frame(1)>>
                /\ UNCHANGED <<arg, ret, rows, columns>>
    /\ UNCHANGED <<reads, pushed>>

ReadPage ==
    /\ pc \in {"parse_tables", "select"}
    /\ stack # <<>>
    /\ Top.phase = "enter"
    /\ LET read == Page_read(arg.file, Top.page_num, db.page_size)
       IN  IF ~read.ok
           THEN Abort(read, "traverse")
           ELSE /\ stack' = SetTop([Top EXCEPT !.phase = "cells", !.page = read.page])
                /\ UNCHANGED <<pc, arg, ret, db, rows, columns>>
    /\ reads' = reads + 1
    /\ UNCHANGED pushed

LeafCell ==
    /\ pc \in {"parse_tables", "select"}
    /\ stack # <<>>
    /\ Top.phase = "cells"
    /\ is_leaf(Top.page)
    /\ Top.i < Top.page.num_cells
    /\ LET pointer == cell_pointer(Top.page, Top.i)
           leaf == IF pointer.ok
                   THEN parse_leaf_cell(pointer.pointer, Top.page.data)
                   ELSE pointer
       IN  IF ~leaf.ok
           THEN Abort(leaf, "traverse") /\ UNCHANGED pushed
           ELSE /\ rows' = Append(rows, leaf.row)
                /\ pushed' = pushed + 1
                /\ stack' = SetTop([Top EXCEPT !.i = next_cell(Top.i)])
                /\ UNCHANGED <<pc, arg, ret, db, columns>>
    /\ UNCHANGED reads

InteriorCell ==
    /\ pc \in {"parse_tables", "select"}
    /\ stack # <<>>
    /\ Top.phase = "cells"
    /\ ~is_leaf(Top.page)
    /\ Top.i < Top.page.num_cells
    /\ LET pointer == cell_pointer(Top.page, Top.i)
           interior == IF pointer.ok
                       THEN parse_interior_cell(pointer.pointer, Top.page.data)
                       ELSE pointer
       IN  IF ~interior.ok
           THEN Abort(interior, "traverse")
           ELSE Recurse([Top EXCEPT !.i = next_cell(Top.i)],
                        page_number(interior.cell.child_page_number))
    /\ UNCHANGED <<reads, pushed>>

RightmostChild ==
    /\ pc \in {"parse_tables", "select"}
    /\ stack # <<>>
    /\ Top.phase = "cells"
    /\ ~is_leaf(Top.page)
    /\ Top.i >= Top.page.num_cells
    /\ LET right == rightmost_child(Top.page)
       IN  IF ~right.ok
           THEN Abort(right, "traverse")
           ELSE Recurse([Top EXCEPT !.phase = "rightmost"], page_number(right.child))
    /\ UNCHANGED <<reads, pushed>>

Return ==
    /\ pc \in {"parse_tables", "select"}
    /\ stack # <<>>
    /\ \/ Top.phase = "cells" /\ is_leaf(Top.page) /\ Top.i >= Top.page.num_cells
       \/ Top.phase = "rightmost"
    /\ stack' = Pop
    /\ UNCHANGED <<pc, arg, ret, db, rows, columns, reads, pushed>>

\* parse_tables after its traversal, and run up to the call of execute
ParseTables ==
    /\ pc = "parse_tables"
    /\ stack = <<>>
    /\ LET parsed == tables_loop(rows, 1, <<>>)
       IN  IF ~parsed.ok
           THEN Abort(parsed, "parse_tables")
           ELSE /\ pc' = "execute"
                /\ db' = [db EXCEPT !.tables = parsed.tables]
                /\ rows' = <<>>
                /\ UNCHANGED <<arg, ret, stack, columns>>
    /\ reads' = 0
    /\ pushed' = 0

Ok(column_names, result) ==
    [ok |-> TRUE, column_names |-> column_names, rows |-> result]

\* execute up to its return or its call of traverse
Execute ==
    /\ pc = "execute"
    /\ LET plan == execute_plan(db.tables, arg.query)
       IN  IF ~plan.ok
           THEN Abort(plan, "execute")
           ELSE IF ~plan.table.some
           THEN /\ pc' = "done"
                /\ ret' = Ok(columns, rows)
                /\ UNCHANGED <<arg, db, stack, rows, columns>>
           ELSE /\ pc' = "select"
                /\ columns' = plan.table.v.column_names
                /\ stack' = <<Frame(page_number(AsU32(plan.table.v.rootpage)))>>
                /\ UNCHANGED <<arg, ret, db, rows>>
    /\ UNCHANGED <<reads, pushed>>

ExecuteReturn ==
    /\ pc = "select"
    /\ stack = <<>>
    /\ pc' = "done"
    /\ ret' = Ok(columns, rows)
    /\ UNCHANGED <<arg, db, stack, rows, columns, reads, pushed>>

Next ==
    \/ Run
    \/ ReadPage
    \/ LeafCell
    \/ InteriorCell
    \/ RightmostChild
    \/ Return
    \/ ParseTables
    \/ Execute
    \/ ExecuteReturn

Spec == Init /\ [][Next]_vars

-----------------------------------------------------------------------------
(* What the pages of a file say its trees hold *)

Undefined == [defined |-> FALSE]

\* the rows of the tree rooted at page n, as the pages were described: the
\* rows of a table leaf in stored order; for a table interior page the rows
\* under each child in stored order, then those under the rightmost child.
\* Undefined where a pointer leaves the file, a cell cannot be decoded, a
\* page is not a table page, or the pointers lead back to an ancestor.
RECURSIVE TreeRowsOf(_, _, _)
TreeRowsOf(pages, n, fuel) ==
    IF fuel = 0 \/ n < 1 \/ n > Len(pages) THEN Undefined
    ELSE LET d == pages[n]
         IN  IF d.kind = "leaf"
             THEN IF d.type # 13
                       \/ \E k \in 1..Len(d.rows) : \E c \in 1..Len(d.rows[k].cols) :
                             d.rows[k].cols[c].code \in {10, 11}
                  THEN Undefined
                  ELSE [defined |-> TRUE, rows |-> d.rows]
             ELSE IF d.type # 5 THEN Undefined
             ELSE LET subs == [k \in 1..(Len(d.children) + 1) |->
                                 TreeRowsOf(pages,
                                     IF k <= Len(d.children) THEN d.children[k].child
                                     ELSE d.right,
                                     fuel - 1)]
                  IN  IF \E k \in 1..Len(subs) : ~subs[k].defined
                      THEN Undefined
                      ELSE [defined |-> TRUE,
                            rows |-> Flatten([k \in 1..Len(subs) |-> subs[k].rows])]

TreeRows(n) == TreeRowsOf(arg.pages, n, Len(arg.pages) + 1)

ExpectedRows(described) ==
    [k \in 1..Len(described) |-> ExpectedRow(described[k].rowid, described[k].cols)]

\* the pages reachable from page n by child and rightmost-child pointers
RECURSIVE ReachableFrom(_, _, _)
ReachableFrom(pages, frontier, seen) ==
    LET inside == {n \in frontier : n >= 1 /\ n <= Len(pages)} \ seen
        next == UNION { IF pages[n].kind = "leaf" THEN {}
                        ELSE {pages[n].children[k].child : k \in 1..Len(pages[n].children)}
                               \union {pages[n].right} : n \in inside }
    IN  IF inside = {} THEN seen
        ELSE ReachableFrom(pages, next, seen \union inside)

RECURSIVE SumCells(_, _)
SumCells(pages, leaves) ==
    IF leaves = {} THEN 0
    ELSE LET n == CHOOSE m \in leaves : TRUE
         IN  Len(pages[n].rows) + SumCells(pages, leaves \ {n})

\* the sum of the cell counts of the leaf pages reachable from page n
ReachableLeafCells(n) ==
    SumCells(arg.pages, {m \in ReachableFrom(arg.pages, {n}, {}) : arg.pages[m].kind = "leaf"})

RECURSIVE SumSeq(_)
SumSeq(ns) == IF ns = <<>> THEN 0 ELSE Head(ns) + SumSeq(Tail(ns))

\* the sum of the cell counts of the leaf pages, each counted once per
\* pointer path that leads to it from page n
RECURSIVE VisitedLeafCellsOf(_, _, _)
VisitedLeafCellsOf(pages, n, fuel) ==
    IF fuel = 0 \/ n < 1 \/ n > Len(pages) THEN 0
    ELSE LET d == pages[n]
         IN  IF d.kind = "leaf" THEN Len(d.rows)
             ELSE SumSeq([k \in 1..(Len(d.children) + 1) |->
                            VisitedLeafCellsOf(pages,
                                IF k <= Len(d.children) THEN d.children[k].child
                                ELSE d.right,
                                fuel - 1)])

VisitedLeafCells(n) == VisitedLeafCellsOf(arg.pages, n, Len(arg.pages) + 1)

\* the token that follows the first occurrence of a keyword, if any
AfterFirst(parts, word) ==
    IF \E k \in 1..(Len(parts) - 1) :
          parts[k] = word /\ \A j \in 1..(k - 1) : parts[j] # word
    THEN Some(parts[(CHOOSE k \in 1..(Len(parts) - 1) :
                        parts[k] = word /\ \A j \in 1..(k - 1) : parts[j] # word) + 1])
    ELSE None

QueryTokens == split_whitespace(arg.query)
CatalogBuilt == pc \in {"execute", "select", "done"} \/ (pc \in {"panicked", "hung"} /\ ret.during \in {"execute", "select"})
TableNames == {db.tables[k].name : k \in 1..Len(db.tables)}

\* the query asks for * from a table of the catalog
SelectsAllOfATable ==
    /\ CatalogBuilt
    /\ AfterFirst(QueryTokens, SELECT) = Some(STAR)
    /\ AfterFirst(QueryTokens, FROM).some
    /\ AfterFirst(QueryTokens, FROM).v \in TableNames

NamedTable ==
    LET name == AfterFirst(QueryTokens, FROM).v
    IN  db.tables[CHOOSE k \in 1..Len(db.tables) :
                     db.tables[k].name = name
                       /\ \A j \in 1..(k - 1) : db.tables[j].name # name]

\* the root page of the named table; the catalogs of the model keep it
\* below 2^16
NamedRoot == BE16(NamedTable.rootpage[7], NamedTable.rootpage[8])

\* the root page that execute hands to traverse
SelectRoot == page_number(AsU32(execute_plan(db.tables, arg.query).table.v.rootpage))

\* the root of the traversal in progress or just completed
TraversalRoot == IF pc = "parse_tables" THEN 1 ELSE SelectRoot

TraversalComplete == pc \in {"parse_tables", "select"} /\ stack = <<>>

\* the columns that the catalog row of the named table declares
DeclaredColumnsOf(name) ==
    LET described == TreeRows(1).rows
        k == CHOOSE k \in 1..Len(described) :
                 /\ described[k].cols[1].value = Text(TABLE)
                 /\ described[k].cols[2].value = Text(name)
                 /\ \A j \in 1..(k - 1) :
                       ~(described[j].cols[1].value = Text(TABLE)
                           /\ described[j].cols[2].value = Text(name))
    IN  described[k].declares

\* C1: when the token after SELECT is a bare * and the token after FROM names
\* a table of the catalog, execute returns that table's column names, in the
\* order its definition declares them, with the whole row sequence of the
\* traversal of the table's root page, in stored cell order; and execute
\* itself does not fail on such a query (only the traversal of a damaged tree
\* can).
C1_SelectStarReturnsTable ==
    SelectsAllOfATable =>
        /\ pc = "done" =>
              /\ TreeRows(NamedRoot).defined
              /\ ret = Ok(NamedTable.column_names, ExpectedRows(TreeRows(NamedRoot).rows))
              /\ ret.column_names = DeclaredColumnsOf(NamedTable.name)
        /\ pc \in {"panicked", "hung"} =>
              ret.in = "traverse" /\ ~TreeRows(NamedRoot).defined

C1_Witness ==
    /\ pc = "done"
    /\ SelectsAllOfATable
    /\ QueryTokens = <<FROM, S(<<"t">>), SELECT, STAR>>
    /\ ret.column_names = <<S(<<"a">>), S(<<"b">>)>>
    /\ Len(ret.rows) = 3

\* C2 as amended: a completed traversal has appended exactly the rows that
\* the pages describe: the cells of a leaf in pointer-array order, never
\* resorted by row id; under an interior page the subtree of each child cell
\* in stored order, each whole before the next, then the subtree of the
\* rightmost child.  The number of rows is the sum of the cell counts of the
\* leaf pages, a leaf counted once for each pointer path that leads to it,
\* and no interior cell is among the rows.
C2_TraversalOrder ==
    TraversalComplete =>
        /\ TreeRows(TraversalRoot).defined
        /\ rows = ExpectedRows(TreeRows(TraversalRoot).rows)
        /\ Len(rows) = VisitedLeafCells(TraversalRoot)

\* a three-level tree, whose first leaf stores row 5 before row 2
C2_Witness ==
    /\ TraversalComplete
    /\ pc = "select"
    /\ Len(arg.pages) = 5
    /\ Len(rows) >= 5
    /\ rows[1].rowid = U64(5)
    /\ rows[2].rowid = U64(2)

\* C2 as stated: the same row sequence, and the number of rows equal to the
\* sum of the cell counts of the leaf pages reachable from the root.
C2_AsStated ==
    TraversalComplete =>
        /\ TreeRows(TraversalRoot).defined
        /\ rows = ExpectedRows(TreeRows(TraversalRoot).rows)
        /\ Len(rows) = ReachableLeafCells(TraversalRoot)

\* a keyword is followed by a token that rules the query out
RuledOut ==
    /\ CatalogBuilt
    /\ \/ AfterFirst(QueryTokens, SELECT).some /\ AfterFirst(QueryTokens, SELECT).v # STAR
       \/ AfterFirst(QueryTokens, FROM).some /\ AfterFirst(QueryTokens, FROM).v \notin TableNames

\* C3: when the token after SELECT is not a bare *, or the token after FROM
\* is not the name of a table of the catalog, execute returns an empty column
\* list and an empty row list, raises no error and reads no page.
C3_OtherQueriesEmpty ==
    RuledOut =>
        /\ pc \notin {"panicked", "hung", "select"}
        /\ pc = "done" => ret = Ok(<<>>, <<>>) /\ reads = 0

\* a page is entered while the traversal of that same page is in progress
ReentersAncestor ==
    \E i \in 1..Len(stack) : \E j \in (i + 1)..Len(stack) :
        stack[i].page_num = stack[j].page_num

\* C4: the traversal of a page graph with a cycle ends, and ends with
\* CorruptTree: no page is entered again while it is being traversed, and the
\* recursion never goes on until the stack is exhausted.
C4_CycleFailsCorruptTree ==
    /\ ~ReentersAncestor
    /\ ~(pc = "panicked" /\ ret.in = "traverse" /\ ret.panic = StackOverflow.panic)

CatalogDescribed == TreeRows(1).rows
IsTableRow(described) == described.cols[1].value = Text(TABLE)
ExpectedTables ==
    LET declared == SelectSeq(CatalogDescribed, IsTableRow)
    IN  [k \in 1..Len(declared) |->
            Table(declared[k].cols[2].value.s, declared[k].cols[4].value.i,
                  declared[k].declares)]

ParseTablesEnded == pc = "execute" \/ (pc = "panicked" /\ ret.in = "parse_tables")

\* C6: parse_tables returns one Table for each row of the page-1 traversal
\* whose first value is the text "table", in traversal order, with the row's
\* second value as name, its fourth as root page and the columns extracted
\* from its fifth; and no Table for any other row.
C6_OneTablePerTableRow ==
    ParseTablesEnded => pc = "execute" /\ db.tables = ExpectedTables

\* C7: a catalog row whose first value is not "table" is ignored: the outcome
\* of parse_tables is the one it has on the table rows alone, whatever the
\* other rows hold.
C7_OtherRowsIgnored ==
    ParseTablesEnded =>
        LET alone == tables_loop(ExpectedRows(SelectSeq(CatalogDescribed, IsTableRow)), 1, <<>>)
        IN  IF alone.ok
            THEN pc = "execute" /\ db.tables = alone.tables
            ELSE pc = "panicked" /\ ret.panic = alone.panic

-----------------------------------------------------------------------------
(* The serial-type decoder on negative integers and on reserved codes *)

\* the call of parse_type_code that returned or panicked, with a code below 2^24
TypeCodeCalled ==
    /\ pc = "returned" /\ arg.fn = "parse_type_code"
    /\ \A k \in 1..5 : arg.type_code[k] = 0

CalledCode == arg.type_code[6] * 65536 + arg.type_code[7] * 256 + arg.type_code[8]

\* C11: for the codes 1 to 5, when the top bit of the first stored byte is
\* set, parse_type_code returns the negative 64-bit integer that sign
\* extension of the 1, 2, 3, 4 or 6 stored bytes gives (code 3 on FF FF FF is
\* -1), never the zero-extended positive value.
C11_SignExtension ==
    (TypeCodeCalled /\ CalledCode \in 1..5) =>
        LET w == IF CalledCode = 5 THEN 6 ELSE CalledCode
        IN  (Len(arg.data) >= w /\ arg.data[1] >= 128) =>
               /\ ret.ok
               /\ ret.size = w
               /\ ret.value.kind = "Integer"
               /\ ret.value.i = Repeat(255, 8 - w) \o SubSeq(arg.data, 1, w)

\* a failure handed to the caller as a value
Err(kind) == [ok |-> FALSE, diverges |-> FALSE, error |-> kind]

\* C12: on the codes 10 and 11 parse_type_code produces no Value and fails
\* with UnknownTypeCode, an error that the caller receives, not a panic that
\* ends the process.
C12_UnknownTypeCodeIsAnError ==
    (TypeCodeCalled /\ CalledCode \in {10, 11}) => ret = Err("UnknownTypeCode")

-----------------------------------------------------------------------------
(* The varint check: parse_varint applied to bounded byte sequences *)

MaxVarintLen == 10

\* the bits of a number below 2^n, most significant first
Bits(b, n) == [j \in 1..n |-> (b \div 2^(n - j)) % 2]

RECURSIVE BitsValue(_)
BitsValue(bits) ==
    IF bits = <<>> THEN 0 ELSE 2 * BitsValue(SubSeq(bits, 1, Len(bits) - 1)) + bits[Len(bits)]

\* at most 64 bits as a u64
FromBits(bits) ==
    LET padded == Repeat(0, 64 - Len(bits)) \o bits
    IN  [k \in 1..8 |-> BitsValue(SubSeq(padded, 8 * k - 7, 8 * k))]

ToBits(w) == Flatten([k \in 1..8 |-> Bits(w[k], 8)])

\* the format's encoding of a u64: below 2^56 the 7-bit groups from the
\* first group that is not zero, a continuation bit on all but the last;
\* from 2^56 on nine bytes, eight groups of 7 bits and a last byte of 8
EncodeVarint64(w) ==
    LET bits == ToBits(w)
    IN  IF w[1] # 0
        THEN [k \in 1..8 |-> 128 + BitsValue(SubSeq(bits, 7 * k - 6, 7 * k))] \o <<w[8]>>
        ELSE LET low == SubSeq(bits, 9, 64)
                 used == {g \in 1..8 : \E j \in (7 * g - 6)..(7 * g) : low[j] = 1}
                 first == IF used = {} THEN 8 ELSE CHOOSE g \in used : \A h \in used : g <= h
             IN  [k \in 1..(9 - first) |->
                    (IF k < 9 - first THEN 128 ELSE 0)
                      + BitsValue(SubSeq(low, 7 * (first + k - 1) - 6, 7 * (first + k - 1)))]

VarintValues ==
    { U64(0), U64(127), U64(128), U64(300), U64(16383), U64(16384),
      <<0, 0, 0, 0, 255, 255, 255, 255>>,
      <<0, 255, 255, 255, 255, 255, 255, 255>>,
      <<1, 0, 0, 0, 0, 0, 0, 0>>,
      <<128, 0, 0, 0, 0, 0, 0, 1>>,
      <<255, 255, 255, 255, 255, 255, 255, 255>> }

InitVarint ==
    /\ pc = "call"
    /\ arg \in
         { [fn |-> "parse_varint", bytes |-> b] :
             b \in { [k \in 1..n |-> IF k % 2 = 1 THEN c1 ELSE c2] \o tail :
                       c1 \in {128, 129, 130, 255}, c2 \in {128, 129, 130, 255},
                       n \in 0..MaxVarintLen,
                       tail \in { <<>>, <<0>>, <<44>>, <<127, 255>>, <<1, 128>> } }
                    \cup { EncodeVarint64(v) \o tail :
                             v \in VarintValues, tail \in {<<>>, <<255>>} } }
    /\ ret = None
    /\ Idle

CallParseVarint ==
    /\ pc = "call"
    /\ arg.fn = "parse_varint"
    /\ ret' = parse_varint(arg.bytes)
    /\ pc' = "returned"
    /\ UNCHANGED <<arg, db, stack, rows, columns, reads, pushed>>

SpecVarint == InitVarint /\ [][CallParseVarint]_vars

VarintCalled == pc = "returned" /\ arg.fn = "parse_varint"

\* the index of the first byte whose top bit is clear, 0 if there is none
FirstTerminator(bytes) ==
    IF \E k \in 1..Len(bytes) : bytes[k] < 128
    THEN CHOOSE k \in 1..Len(bytes) : bytes[k] < 128 /\ \A j \in 1..(k - 1) : bytes[j] >= 128
    ELSE 0

\* C13: when the first byte with a clear top bit is the k-th and k <= 8,
\* parse_varint returns the value whose bits are the low 7 bits of the bytes
\* 1..k, most significant group first, and the count k: [00] gives (0, 1),
\* [82 2C] gives (300, 2), [81 80 00] gives (16384, 3).  It never consumes
\* more than 9 bytes.
C13_VarintValue ==
    VarintCalled =>
        LET k == FirstTerminator(arg.bytes)
        IN  /\ ret.bytes_read <= 9
            /\ k \in 1..8 =>
                  /\ ret.bytes_read = k
                  /\ ret.value = FromBits(Flatten([j \in 1..k |-> Bits(arg.bytes[j] % 128, 7)]))
            /\ arg.bytes = <<0>> => ret = [value |-> U64(0), bytes_read |-> 1]
            /\ arg.bytes = <<130, 44>> => ret = [value |-> U64(300), bytes_read |-> 2]
            /\ arg.bytes = <<129, 128, 0>> => ret = [value |-> U64(16384), bytes_read |-> 3]

C13_Witness ==
    /\ VarintCalled
    /\ arg.bytes = <<129, 128, 0>>
    /\ ret = [value |-> <<0, 0, 0, 0, 0, 0, 64, 0>>, bytes_read |-> 3]

\* C14: for every u64 v, parse_varint on the format's encoding of v returns
\* v and the length of the encoding, also for the values of 2^56 and more,
\* whose nine-byte form gives 7 bits in each of the first eight bytes and all
\* 8 bits of the ninth.
C14_VarintRoundTrip ==
    VarintCalled =>
        \A v \in VarintValues :
            arg.bytes = EncodeVarint64(v) =>
                ret = [value |-> v, bytes_read |-> Len(EncodeVarint64(v))]

\* C15: on an empty slice, and on fewer than 9 bytes that all have the
\* continuation bit set, parse_varint fails with TruncatedVarint and returns
\* no value and no count.
C15_TruncatedVarint ==
    (VarintCalled /\ Len(arg.bytes) < 9 /\ FirstTerminator(arg.bytes) = 0) =>
        ret = Err("TruncatedVarint")

-----------------------------------------------------------------------------
(* The page check: Page::read, Page::cell_pointer and parse_interior_cell
   applied to bounded inputs *)

MaxCellIndex == 15

\* two pages of 32 bytes; the second a table leaf that declares 32 cells,
\* more than its pointer array can hold
SmallPageFile ==
    Repeat(0, 32) \o <<13, 0, 0, 0, 32, 0, 0, 0>> \o [k \in 1..24 |-> k]

\* a file of whole pages, one that ends inside its second page, the file of
\* small pages and the empty file; page sizes from 0 up
InitPageRead ==
    /\ pc = "call"
    /\ arg \in
         { [fn |-> "Page::read", file |-> f, page_num |-> n, page_size |-> s] :
             f \in { PlainFile.bytes, SliceTo(PlainFile.bytes, 300), SmallPageFile, <<>> },
             n \in 0..(MaxPage + 1),
             s \in {0, 4, 5, 32, 100, 105, 256, 300, 512} }
    /\ ret = None
    /\ Idle

CallPageRead ==
    /\ pc = "call"
    /\ arg.fn = "Page::read"
    /\ ret' = Page_read(arg.file, arg.page_num, arg.page_size)
    /\ pc' = "returned"
    /\ UNCHANGED <<arg, db, stack, rows, columns, reads, pushed>>

\* pages that Page::read returns: the catalog, an interior and a leaf page of
\* a file, and the leaf that declares 32 cells; indexes around the overflow
\* of i * 2
InitCellPointer ==
    /\ pc = "call"
    /\ arg \in
         { [fn |-> "cell_pointer", page |-> p, i |-> i] :
             p \in { Page_read(PlainFile.bytes, n, PageSize).page : n \in 1..3 }
                     \cup { Page_read(SmallPageFile, 2, 32).page },
             i \in 0..MaxCellIndex \cup {32767, 32768, 32769} }
    /\ ret = None
    /\ Idle

\* either build of the program
CallCellPointer ==
    /\ pc = "call"
    /\ arg.fn = "cell_pointer"
    /\ ret' \in {cell_pointer(arg.page, arg.i), cell_pointer_wrapping(arg.page, arg.i)}
    /\ pc' = "returned"
    /\ UNCHANGED <<arg, db, stack, rows, columns, reads, pushed>>

\* cells at offset 0 and 3: child numbers with and without high bytes, row
\* ids of one to nine bytes and row ids cut short, with and without bytes
\* after the cell; and every offset into one short buffer
InitInteriorCell ==
    /\ pc = "call"
    /\ arg \in
         { [fn |-> "parse_interior_cell", index |-> lead,
            page |-> Repeat(0, lead) \o child \o rowid \o trail] :
              lead \in {0, 3},
              child \in { <<0, 0, 0, 3>>, <<0, 0, 1, 2>>, <<1, 2, 3, 4>>,
                          <<255, 255, 255, 255>> },
              rowid \in { EncodeVarint64(v) : v \in VarintValues } \cup { <<>>, <<129>> },
              trail \in { <<>>, <<255, 0>> } }
         \cup
         { [fn |-> "parse_interior_cell", index |-> i, page |-> <<0, 0, 0, 3, 130, 44>>] :
              i \in 1..6 }
    /\ ret = None
    /\ Idle

CallParseInteriorCell ==
    /\ pc = "call"
    /\ arg.fn = "parse_interior_cell"
    /\ ret' = parse_interior_cell(arg.index, arg.page)
    /\ pc' = "returned"
    /\ UNCHANGED <<arg, db, stack, rows, columns, reads, pushed>>

SpecPage ==
    /\ InitPageRead \/ InitCellPointer \/ InitInteriorCell
    /\ [][CallPageRead \/ CallCellPointer \/ CallParseInteriorCell]_vars

InteriorCellCalled == pc = "returned" /\ arg.fn = "parse_interior_cell"

\* the value of the varint of the file format at the head of bytes: 7 bits of
\* each byte up to the first with a clear top bit, or 7 bits of eight bytes
\* and 8 of the ninth; Undefined when the bytes end inside the varint
FormatVarint(bytes) ==
    LET k == FirstTerminator(SliceTo(bytes, Min(8, Len(bytes))))
    IN  IF k > 0
        THEN [defined |-> TRUE,
              value |-> FromBits(Flatten([j \in 1..k |-> Bits(bytes[j] % 128, 7)]))]
        ELSE IF Len(bytes) >= 9
        THEN [defined |-> TRUE,
              value |-> FromBits(Flatten([j \in 1..8 |-> Bits(bytes[j] % 128, 7)])
                                   \o Bits(bytes[9], 8))]
        ELSE Undefined

\* C16: for a cell at offset p whose four bytes and whose row id varint lie
\* inside the page, parse_interior_cell returns the child page number that is
\* the big-endian value of the bytes p..p+3 and the row id that is the value
\* of the varint starting at byte p+4
C16_InteriorCell ==
    InteriorCellCalled =>
        LET p == arg.index
            rowid == FormatVarint(SliceFrom(arg.page, p + 4))
        IN  (p + 4 <= Len(arg.page) /\ rowid.defined) =>
                ret = [ok |-> TRUE,
                       cell |-> Cell(SubSeq(arg.page, p + 1, p + 4), rowid.value)]

PageReadCalled == pc = "returned" /\ arg.fn = "Page::read"

\* C17: Page::read for page number n >= 1 and page size s fails when the
\* file has fewer than s bytes from offset (n-1)*s on; otherwise, on a page
\* long enough to hold the header fields, it returns the Page whose data are
\* exactly the s bytes at file offset (n-1)*s, whose header offset is 100 for
\* n = 1 and 0 for every other n, whose page type is the byte at the header
\* offset and whose cell count is the big-endian 16-bit value of the bytes at
\* header offset + 3 and + 4
C17_PageRead ==
    PageReadCalled =>
        LET n == arg.page_num
            s == arg.page_size
            start == (n - 1) * s
            off == IF n = 1 THEN 100 ELSE 0
        IN  n >= 1 =>
              /\ start + s > Len(arg.file) => ~ret.ok
              /\ (start + s <= Len(arg.file) /\ s > off + 4) =>
                    /\ ret.ok
                    /\ Len(ret.page.data) = s
                    /\ \A k \in 1..s : ret.page.data[k] = arg.file[start + k]
                    /\ ret.page.offset = off
                    /\ ret.page.page_type = arg.file[start + off + 1]
                    /\ ret.page.num_cells =
                         256 * arg.file[start + off + 4] + arg.file[start + off + 5]

\* the first page of a file was read: its header follows the file header
C17_Witness ==
    /\ PageReadCalled
    /\ arg.page_num = 1
    /\ arg.page_size = PageSize
    /\ ret.ok
    /\ ret.page.offset = 100
    /\ ret.page.page_type = 13
    /\ ret.page.num_cells > 0

-----------------------------------------------------------------------------
(* Pages of other types in the place of table pages *)

\* files whose tables have pages of the index kinds 0x0A and 0x02, or of
\* type 0, laid out as the leaf or interior pages they stand in for
InitPageTypes ==
    InitRun({ FileOf(<<Catalog, LeafPage(10, LeafA.rows), LeafB>>),
              FileOf(<<Catalog, LeafPage(10, <<>>), LeafB>>),
              FileOf(<<Catalog, InteriorPage(2, <<ChildOf(3, 5)>>, 4), LeafA, LeafB>>),
              FileOf(<<Catalog, InteriorPage(5, <<ChildOf(3, 5)>>, 4),
                       LeafPage(10, LeafA.rows), LeafB>>),
              FileOf(<<Catalog, LeafPage(0, LeafB.rows), LeafB>>),
              FileOf(<<LeafPage(10, <<TableT, TableU>>), LeafA, LeafB>>) },
            CoreQueries)

SpecPageTypes == InitPageTypes /\ [][Next]_vars

\* the page of the running traverse call has been read and its type byte is
\* neither 0x0D nor 0x05
UnsupportedPageOnTop ==
    /\ pc \in {"parse_tables", "select"}
    /\ stack # <<>>
    /\ Top.page # None
    /\ Top.page.page_type \notin {13, 5}

\* C18: once traverse has read a page whose type byte is neither 0x0D nor
\* 0x05, the index kinds 0x0A and 0x02 included, its next step is the failure
\* UnsupportedPageType: no cell of the page is decoded, no child is visited
C18_UnsupportedPageTypeRejected ==
    [][UnsupportedPageOnTop => ret' = Err("UnsupportedPageType")]_vars

CellPointerCalled == pc = "returned" /\ arg.fn = "cell_pointer"

\* C19: for every index i below the cell count of the page, cell_pointer
\* returns the big-endian 16-bit value stored at byte position
\* header offset + B + 2 * i of the page, B being 8 on a leaf page and 12 on
\* an interior page
C19_CellPointer ==
    (CellPointerCalled /\ arg.i < arg.page.num_cells) =>
        LET B == IF arg.page.page_type \in {13, 10} THEN 8 ELSE 12
            at == arg.page.offset + B + 2 * arg.i
        IN  /\ at + 2 <= Len(arg.page.data)
            /\ ret = [ok |-> TRUE,
                      pointer |-> 256 * arg.page.data[at + 1] + arg.page.data[at + 2]]

-----------------------------------------------------------------------------
(* A session: execute called again and again on the Db that run has built *)

MaxCalls == 3

\* a table of the file, a table it does not have, a projection other than *
SessionQueries ==
    { Join(<<SELECT, STAR, FROM, S(<<"t">>)>>, Space),
      Join(<<SELECT, STAR, FROM, S(<<"w">>)>>, Space),
      Join(<<SELECT, S(<<"a">>), FROM, S(<<"t">>)>>, Space) }

\* arg.earlier lists the calls that have returned, each with the Db it left
InitSession ==
    /\ pc = "run"
    /\ arg \in
         { [fn |-> "run", file |-> f.bytes, pages |-> f.pages, query |-> q,
            earlier |-> <<>>] :
              f \in { PlainFile,
                      FileOf(<<Catalog, InteriorPage(5, <<ChildOf(4, 9), ChildOf(3, 5)>>, 4),
                               LeafA, LeafB>>) },
              q \in SessionQueries }
    /\ ret = None
    /\ Idle

\* mutant of fresh: the rows of the call before stay in the vector
fresh_keep(previous) == previous

\* let mut rows: Vec<Row> = vec![]; let mut column_names: Vec<String> = vec![]
fresh(previous) == <<>>

\* the caller takes the result and calls execute on the same Db again
NextQuery ==
    /\ pc = "done"
    /\ Len(arg.earlier) + 1 < MaxCalls
    /\ \E q \in SessionQueries :
          arg' = [arg EXCEPT !.query = q,
                             !.earlier = Append(@, [query |-> arg.query, result |-> ret,
                                                    db |-> db])]
    /\ pc' = "execute"
    /\ ret' = None
    /\ rows' = fresh(rows)
    /\ columns' = fresh(columns)
    /\ reads' = 0
    /\ pushed' = 0
    /\ UNCHANGED <<db, stack>>

SpecSession == InitSession /\ [][Next \/ NextQuery]_vars

\* C20: no step of an execute call changes the Db (table names, root pages,
\* column names, page size): after any sequence of calls it is the Db that
\* every earlier call left; and a query issued again returns the columns
\* and rows it returned before
C20_CatalogImmutable ==
    /\ [][CatalogBuilt => db' = db]_vars
    /\ [](CatalogBuilt =>
            \A k \in 1..Len(arg.earlier) :
               /\ arg.earlier[k].db = db
               /\ (pc = "done" /\ arg.earlier[k].query = arg.query) =>
                      arg.earlier[k].result = ret)

\* the query on table t has returned its rows a second time, after a query
\* on an unknown table in between
C20_Witness ==
    /\ pc = "done"
    /\ Len(arg.earlier) = 2
    /\ arg.earlier[1].query = arg.query
    /\ arg.earlier[2].query # arg.query
    /\ arg.earlier[2].result.rows = <<>>
    /\ Len(ret.rows) > 0

-----------------------------------------------------------------------------
(* parse_leaf_cell step by step: the loop over the serial type codes, one
   step per test of its condition and one per run of its body *)

MaxPushes == 3

\* the cells of InitCell, and cells that no writer of the format produces:
\* a header_size of 0, a type code that starts inside the header and ends
\* past it, a header_size that reaches the end of the buffer and one past it
InitLeafLoop ==
    \/ InitCell
    \/ /\ pc = "call"
       /\ arg \in { [fn |-> "parse_leaf_cell", pointer |-> 0, page |-> c,
                     whole |-> FALSE, rowid |-> 1, cols |-> <<>>] :
                       c \in { <<2, 1, 0, 9>>,
                               <<4, 1, 2, 129, 1, 7>>,
                               <<5, 1, 3, 1, 129, 1, 7, 7>>,
                               <<3, 1, 4, 1>>,
                               <<3, 1, 9, 1, 1>>,
                               <<3, 1, 5>> } }
       /\ ret = None
       /\ Idle

\* the locals of parse_leaf_cell while the loop runs
LoopFrame(rowid, payload_start, header_size, header_bytes_read, offset, type_codes, at) ==
    [rowid |-> rowid, payload_start |-> payload_start, header_size |-> header_size,
     header_bytes_read |-> header_bytes_read, offset |-> offset,
     type_codes |-> type_codes, at |-> at]

\* parse_leaf_cell up to the loop
EnterLeafCell ==
    /\ pc = "call"
    /\ arg.fn = "parse_leaf_cell"
    /\ IF arg.pointer > Len(arg.page)
       THEN /\ ret' = Panic("slice start out of range")
            /\ pc' = "returned"
            /\ UNCHANGED stack
       ELSE LET payload == parse_varint(SliceFrom(arg.page, arg.pointer))
                rowid == parse_varint(SliceFrom(arg.page, arg.pointer + payload.bytes_read))
                payload_start == arg.pointer + payload.bytes_read + rowid.bytes_read
                header == parse_varint(SliceFrom(arg.page, payload_start))
            IN  /\ stack' = <<LoopFrame(rowid.value, payload_start, AsUsize(header.value),
                                        header.bytes_read, header.bytes_read, <<>>, "test")>>
                /\ pc' = "type_codes"
                /\ UNCHANGED ret
    /\ UNCHANGED <<arg, db, rows, columns, reads, pushed>>

\* type_codes.push(type_code): the vector grows without limit while the
\* loop makes no progress; the model keeps MaxPushes of those elements
push(type_codes, type_code, n) ==
    IF n = 0 /\ Len(type_codes) >= MaxPushes THEN type_codes
    ELSE Append(type_codes, type_code)

\* while offset < header_size as usize: into the body, or on to the values
\* and the return
LoopTest ==
    /\ pc = "type_codes"
    /\ Top.at = "test"
    /\ IF Top.offset < Top.header_size
       THEN /\ stack' = SetTop([Top EXCEPT !.at = "body"])
            /\ UNCHANGED <<pc, ret>>
       ELSE LET vals == value_loop(arg.page, Top.type_codes, 1,
                                   first_value_offset(Top.payload_start, Top.header_size,
                                                      Top.header_bytes_read),
                                   <<>>)
            IN  /\ ret' = IF vals.ok
                          THEN [ok |-> TRUE, row |-> Row(Top.rowid, vals.values)]
                          ELSE vals
                /\ pc' = "returned"
                /\ stack' = <<>>
    /\ UNCHANGED <<arg, db, rows, columns, reads, pushed>>

\* the body of the loop
LoopBody ==
    /\ pc = "type_codes"
    /\ Top.at = "body"
    /\ IF Top.payload_start + Top.offset > Len(arg.page)
       THEN /\ ret' = Panic("slice start out of range")
            /\ pc' = "returned"
            /\ stack' = <<>>
       ELSE LET v == parse_varint(SliceFrom(arg.page, Top.payload_start + Top.offset))
            IN  /\ stack' = SetTop([Top EXCEPT
                                      !.type_codes = push(@, v.value, v.bytes_read),
                                      !.offset = @ + v.bytes_read,
                                      !.at = "test"])
                /\ UNCHANGED <<pc, ret>>
    /\ UNCHANGED <<arg, db, rows, columns, reads, pushed>>

NextLeafLoop == EnterLeafCell \/ LoopTest \/ LoopBody

\* one thread runs the call: it takes its next step whenever it has one
SpecLeafLoop == InitLeafLoop /\ [][NextLeafLoop]_vars /\ WF_vars(NextLeafLoop)

\* C21: every call of parse_leaf_cell returns, with a Row or with a failure
C21_LeafCellTerminates == <>(pc = "returned")

\* the type-code scan has stopped: the loop test is about to fail
ScanStopped ==
    /\ pc = "type_codes"
    /\ Top.at = "test"
    /\ ~(Top.offset < Top.header_size)

\* C22: when the type-code scan stops, the scan offset equals header_size:
\* the type codes fill the header exactly and the first value is decoded at
\* the byte after the last type code
C22_ScanStopsAtHeaderSize == ScanStopped => Top.offset = Top.header_size

-----------------------------------------------------------------------------
(* The Page invariant on the cell count *)

\* C23: every Page that Page::read returns has room for its cell pointer
\* array: header offset + B-tree header length + 2 * cell count <= length of
\* the page's bytes
C23_CellCountFitsPage ==
    (PageReadCalled /\ ret.ok) =>
        LET header_length == IF is_leaf(ret.page) THEN 8 ELSE 12
        IN  ret.page.offset + header_length + 2 * ret.page.num_cells
                <= Len(ret.page.data)

-----------------------------------------------------------------------------
(* The token accesses of execute *)

\* C24: execute returns its (columns, rows) result for every query: no call
\* ends in a token access out of range, whatever the number of tokens and
\* wherever SELECT and FROM stand
C24_NoTokenOutOfRange ==
    ~(pc = "panicked" /\ ret.in = "execute" /\ ret.panic = "index out of bounds")

\* C25: execute returns a non-empty column list or any rows only if the
\* query has the token FROM followed by the name of a table of the catalog
\* and the token SELECT followed by *; without a FROM token or without a
\* SELECT token the result is empty
C25_ResultOnlyForSelectStarFromTable ==
    (pc = "done" /\ ret # Ok(<<>>, <<>>)) =>
        /\ AfterFirst(QueryTokens, FROM).some
        /\ AfterFirst(QueryTokens, FROM).v \in TableNames
        /\ AfterFirst(QueryTokens, SELECT).some
        /\ AfterFirst(QueryTokens, SELECT).v = STAR

-----------------------------------------------------------------------------
(* The page numbers handed to Page::read *)

\* traverse is about to call Page::read with the page number of its frame
AboutToReadPage ==
    /\ pc \in {"parse_tables", "select"}
    /\ stack # <<>>
    /\ Top.phase = "enter"

\* C26: every page number handed to Page::read while the catalog is built
\* and while a table is traversed is at least 1, so that (page number - 1) *
\* page size does not underflow: a stored reference to page 0 is turned down
\* before the read
C26_PageNumbersAtLeastOne == AboutToReadPage => Top.page_num >= 1

====
